---- MODULE Spec2Model ----
(***************************************************************************)
(* energy_signal: a process-wide iteration counter, a one-time signal      *)
(* handler installation and the start/stop decision that raises SIGUSR1 /  *)
(* SIGUSR2 to the own process (src/energy_signal/src/signals.rs), reached  *)
(* through the C and JNI entry points (src/energy_signal/src/lib.rs).      *)
(***************************************************************************)
EXTENDS Integers, Sequences, FiniteSets, TLC

(* ---- bounds of the model ---- *)
\* number of host threads calling into the library
NumThreads == 2
\* total number of start_signal / stop_signal calls made in a run of Spec
MaxCalls == 4
LiveCalls == 2
MaxIters == 4
\* width of usize in the model (the counter and the budget wrap at 2^UsizeBits)
UsizeBits == 3

Threads == 1..NumThreads

RECURSIVE Pow2(_)
Pow2(n) == IF n = 0 THEN 1 ELSE 2 * Pow2(n - 1)

\* usize::MAX
UsizeMax == Pow2(UsizeBits) - 1

\* enough calls for the counter to pass usize::MAX (runs of SpecLong)
LongCalls == Pow2(UsizeBits) + 1

Signals == {"SIGUSR1", "SIGUSR2"}
Ops == {"start", "stop"}
Entries == {"c", "jni"}

\* Option::None of an Option<usize>
None == -1

(* ---- the environment variable ITERATIONS ---- *)
\* a value is a sequence of characters; "#" stands for a byte that is not
\* valid Unicode
Unset == [set |-> FALSE, val |-> <<>>]
Val(s) == [set |-> TRUE, val |-> s]
EnvValues ==
    { Unset, Val(<<>>), Val(<<"#">>), Val(<<"-", "1">>), Val(<<"1", "x">>),
      Val(<<"9", "9">>), Val(<<"0">>), Val(<<"2">>), Val(<<"+", "3">>) }

\* the values a later change of the environment sets
LaterValues == { Unset, Val(<<"0">>), Val(<<"+", "3">>) }

\* env::var("ITERATIONS").ok(): Some(s) only for a set, valid-Unicode value
EnvVarOk(e) == e.set /\ \A i \in 1..Len(e.val) : e.val[i] # "#"

Digits == <<"0", "1", "2", "3", "4", "5", "6", "7", "8", "9">>
DigitVal(c) ==
    IF \E i \in 1..10 : Digits[i] = c
    THEN (CHOOSE i \in 1..10 : Digits[i] = c) - 1
    ELSE None

\* the digit loop of usize::from_str: checked_mul(10) then checked_add(digit)
RECURSIVE ParseDigits(_, _)
ParseDigits(s, acc) ==
    IF s = <<>> THEN acc
    ELSE LET d == DigitVal(Head(s)) IN
         IF d = None THEN None
         ELSE IF acc * 10 + d > UsizeMax THEN None
         ELSE ParseDigits(Tail(s), acc * 10 + d)

\* s.parse::<usize>().ok(): empty, a lone sign, "-", a non-digit and an
\* overflow are errors; one leading "+" is accepted
ParseUsize(s) ==
    IF s = <<>> THEN None
    ELSE IF s = <<"+">> \/ s = <<"-">> THEN None
    ELSE IF Head(s) = "+" THEN ParseDigits(Tail(s), 0)
    ELSE ParseDigits(s, 0)

\* the fallback of unwrap_or(1)
DefaultIterations == 1

UnwrapOrZero(opt) == IF opt = None THEN 0 ELSE opt
UnwrapOr(opt) == IF opt = None THEN DefaultIterations ELSE opt

\* the initialiser of the Lazy ITERATIONS
IterationsInit(e) ==
    UnwrapOr(IF EnvVarOk(e) THEN ParseUsize(e.val) ELSE None)

(* ---- decisions and arithmetic of start_signal / stop_signal ---- *)
FetchAddLoadOnly(c) == c
\* AtomicUsize::fetch_add(1): wrapping addition
FetchAdd(c) == (c + 1) % Pow2(UsizeBits)

StartDecisionLe(c, n) == c <= n
\* curr < *ITERATIONS
StartDecision(c, n) == c < n

StopNeedsBudgetAlways(c) == TRUE
\* curr > 0 && ...: the right operand is evaluated only when curr > 0
StopNeedsBudget(c) == c > 0

StopDecisionLt(c, n) == c < n
\* ... && curr <= *ITERATIONS
StopDecision(c, n) == c <= n

OnceMayRunRacy(st) == st # "COMPLETE"
\* call_once runs the closure only in the caller that moves the Once from
\* incomplete to running
OnceMayRun(st) == st = "INCOMPLETE"

OncePassRunning(st) == st \in {"COMPLETE", "RUNNING"}
OncePassPoisoned(st) == st \in {"COMPLETE", "POISONED"}
\* Once::call_once returns without running the closure only when the Once
\* is complete
OncePass(st) == st = "COMPLETE"

EntryResultDropped(e, r) == IF e = "jni" THEN 0 ELSE r
\* lib.rs: both entry points return the core's value unchanged
EntryResult(e, r) == r

VARIABLES
    env,             \* the process environment's ITERATIONS
    proc,            \* "running", "aborted" (panic at the FFI boundary), "killed" (default disposition)
    HANDLER_INIT,    \* state of the Once
    disposition,     \* per signal: "default" or "handler"
    ITERATIONS,      \* the Lazy cell: [st, val]
    ITERATION_COUNT, \* the AtomicUsize
    pc, op, curr,    \* per thread: position and locals of the call in progress
    kth,             \* history: per thread, the index of its fetch in fetchLog
    ncalls,          \* history: per thread, number of calls begun
    starts,          \* history: number of start_signal calls begun
    fetchLog,        \* history: the pre-increment values in fetch order
    beginRaised, endRaised,   \* history: signals raised so far
    installs,        \* history: number of runs of the call_once closure
    raiseCalls,      \* history: number of calls of raise(..)
    envReads,        \* history: number of reads of ITERATIONS
    envSeen,         \* history: the value the first read found
    last             \* history: the call that returned in the latest step

vars == << env, proc, HANDLER_INIT, disposition, ITERATIONS, ITERATION_COUNT,
           pc, op, curr, kth, ncalls, starts, fetchLog, beginRaised,
           endRaised, installs, raiseCalls, envReads, envSeen, last >>

\* no call returned in the latest step
NoCall == [t |-> 0, op |-> "none", entry |-> "none", curr |-> 0, k |-> 0,
           raised |-> "none", core |-> 0, ret |-> 0]

RECURSIVE SumTo(_, _)
SumTo(f, n) == IF n = 0 THEN 0 ELSE f[n] + SumTo(f, n - 1)
\* total number of calls begun
calls == SumTo(ncalls, NumThreads)

Init ==
    /\ env \in EnvValues
    /\ proc = "running"
    /\ HANDLER_INIT = "INCOMPLETE"
    /\ disposition = [s \in Signals |-> "default"]
    /\ ITERATIONS = [st |-> "uninit", val |-> 0]
    /\ ITERATION_COUNT = 0
    /\ pc = [t \in Threads |-> "idle"]
    /\ op = [t \in Threads |-> "none"]
    /\ curr = [t \in Threads |-> 0]
    /\ kth = [t \in Threads |-> 0]
    /\ ncalls = [t \in Threads |-> 0]
    /\ starts = 0
    /\ fetchLog = <<>>
    /\ beginRaised = 0
    /\ endRaised = 0
    /\ installs = 0
    /\ raiseCalls = 0
    /\ envReads = 0
    /\ envSeen = Unset
    /\ last = NoCall

\* some thread of the host changes ITERATIONS
SetEnv ==
    /\ proc = "running"
    /\ \E v \in LaterValues \ {env} : env' = v
    /\ last' = NoCall
    /\ UNCHANGED << proc, HANDLER_INIT, disposition, ITERATIONS, ITERATION_COUNT,
                    pc, op, curr, kth, ncalls, starts, fetchLog, beginRaised, endRaised,
                    installs, raiseCalls, envReads, envSeen >>

\* the value *ITERATIONS yields once the Lazy is initialised
BudgetReread == IterationsInit(env)
Budget == ITERATIONS.val

\* the branch condition of a call
Go(o, c) == IF o = "start" THEN StartDecision(c, Budget) ELSE StopDecision(c, Budget)

\* the core returns v (having raised or not) and the entry point the call came
\* through hands it to the caller; stop_signal returns unit
Finish(t, o, c, k, rs, v) ==
    /\ \E e \in Entries :
          last' = [t |-> t, op |-> o, entry |-> e, curr |-> c, k |-> k,
                   raised |-> rs, core |-> v,
                   ret |-> IF o = "start" THEN EntryResult(e, v) ELSE 0]
    /\ pc' = [pc EXCEPT ![t] = "idle"]
    /\ op' = [op EXCEPT ![t] = "none"]
    /\ curr' = [curr EXCEPT ![t] = 0]
    /\ kth' = [kth EXCEPT ![t] = 0]

\* the call goes on at position p with curr = c
GoOn(t, p, o, c, k) ==
    /\ pc' = [pc EXCEPT ![t] = p]
    /\ op' = [op EXCEPT ![t] = o]
    /\ curr' = [curr EXCEPT ![t] = c]
    /\ kth' = [kth EXCEPT ![t] = k]
    /\ last' = NoCall

\* what follows the counter access with curr = c: the comparison against
\* *ITERATIONS when the Lazy holds its value, else the Lazy's initialisation
AfterCount(t, o, c, k) ==
    IF o = "stop" /\ ~StopNeedsBudget(c)
    THEN Finish(t, o, c, k, "none", 0)
    ELSE IF ITERATIONS.st = "init"
    THEN IF Go(o, c) THEN GoOn(t, "raise", o, c, k) ELSE Finish(t, o, c, k, "none", 0)
    ELSE GoOn(t, "budget", o, c, k)

CountAccessStopAdds(t, o) ==
    /\ ITERATION_COUNT' = FetchAdd(ITERATION_COUNT)
    /\ fetchLog' = IF o = "start" THEN Append(fetchLog, ITERATION_COUNT) ELSE fetchLog
    /\ AfterCount(t, o, ITERATION_COUNT, IF o = "start" THEN Len(fetchLog) + 1 ELSE 0)

\* start_signal: let curr = ITERATION_COUNT.fetch_add(1, SeqCst);
\* stop_signal: let curr = ITERATION_COUNT.load(SeqCst)
CountAccess(t, o) ==
    IF o = "start"
    THEN /\ ITERATION_COUNT' = FetchAdd(ITERATION_COUNT)
         /\ fetchLog' = Append(fetchLog, ITERATION_COUNT)
         /\ AfterCount(t, o, ITERATION_COUNT, Len(fetchLog) + 1)
    ELSE /\ UNCHANGED << ITERATION_COUNT, fetchLog >>
         /\ AfterCount(t, o, ITERATION_COUNT, 0)

\* a host thread enters start_signal or stop_signal; call_once returns at once
\* on a completed Once and the call reaches its counter access
Call(t, cap) ==
    /\ proc = "running"
    /\ pc[t] = "idle"
    /\ calls < cap
    /\ \E o \in Ops :
          /\ starts' = starts + (IF o = "start" THEN 1 ELSE 0)
          /\ IF OncePass(HANDLER_INIT)
             THEN CountAccess(t, o)
             ELSE /\ GoOn(t, "once", o, 0, 0)
                  /\ UNCHANGED << ITERATION_COUNT, fetchLog >>
    /\ ncalls' = [ncalls EXCEPT ![t] = @ + 1]
    /\ UNCHANGED << env, proc, HANDLER_INIT, disposition, ITERATIONS,
                    beginRaised, endRaised, installs, raiseCalls, envReads, envSeen >>

\* call_once on an incomplete Once: this thread runs the closure; a thread
\* that finds the Once running has no step until it is complete or poisoned
OnceBegin(t) ==
    /\ proc = "running"
    /\ pc[t] = "once"
    /\ OnceMayRun(HANDLER_INIT)
    /\ HANDLER_INIT' = "RUNNING"
    /\ installs' = installs + 1
    /\ pc' = [pc EXCEPT ![t] = "sa1"]
    /\ last' = NoCall
    /\ UNCHANGED << raiseCalls, env, proc, disposition, ITERATIONS, ITERATION_COUNT,
                    op, curr, kth, ncalls, starts, fetchLog, beginRaised, endRaised,
                    envReads, envSeen >>

\* a thread that found the Once running finds it complete, returns from
\* call_once and reaches its counter access
OnceWake(t) ==
    /\ proc = "running"
    /\ pc[t] = "once"
    /\ HANDLER_INIT # "INCOMPLETE"
    /\ HANDLER_INIT # "POISONED"
    /\ OncePass(HANDLER_INIT)
    /\ CountAccess(t, op[t])
    /\ UNCHANGED << env, proc, HANDLER_INIT, disposition, ITERATIONS,
                    ncalls, starts, beginRaised, endRaised, installs, raiseCalls, envReads, envSeen >>

\* call_once on a poisoned Once panics
OncePoisoned(t) ==
    /\ proc = "running"
    /\ pc[t] = "once"
    /\ HANDLER_INIT = "POISONED"
    /\ pc' = [pc EXCEPT ![t] = "panic"]
    /\ last' = NoCall
    /\ UNCHANGED << env, proc, HANDLER_INIT, disposition, ITERATIONS,
                    ITERATION_COUNT, op, curr, kth, ncalls, starts, fetchLog,
                    beginRaised, endRaised, installs, raiseCalls, envReads, envSeen >>

\* sigaction(sig, &sa).unwrap() inside the closure; a failure panics and the
\* unwinding poisons the Once
Sigaction(t, at, sig, next) ==
    /\ proc = "running"
    /\ pc[t] = at
    /\ \E ok \in BOOLEAN :
          IF ok
          THEN /\ disposition' = [disposition EXCEPT ![sig] = "handler"]
               /\ pc' = [pc EXCEPT ![t] = next]
               /\ UNCHANGED HANDLER_INIT
          ELSE /\ HANDLER_INIT' = "POISONED"
               /\ pc' = [pc EXCEPT ![t] = "panic"]
               /\ UNCHANGED disposition
    /\ last' = NoCall
    /\ UNCHANGED << env, proc, ITERATIONS, ITERATION_COUNT, op, curr, kth,
                    ncalls, starts, fetchLog, beginRaised, endRaised, installs, raiseCalls,
                    envReads, envSeen >>

SigactionUsr1(t) == Sigaction(t, "sa1", "SIGUSR1", "sa2")
SigactionUsr2(t) == Sigaction(t, "sa2", "SIGUSR2", "onceEnd")

OnceEndStateRunning == "RUNNING"
\* the state call_once leaves the Once in when its closure has returned
OnceEndState == "COMPLETE"

\* the closure returned: the Once becomes complete
OnceEnd(t) ==
    /\ proc = "running"
    /\ pc[t] = "onceEnd"
    /\ HANDLER_INIT' = OnceEndState
    /\ pc' = [pc EXCEPT ![t] = "count"]
    /\ last' = NoCall
    /\ UNCHANGED << env, proc, disposition, ITERATIONS, ITERATION_COUNT,
                    op, curr, kth, ncalls, starts, fetchLog, beginRaised, endRaised,
                    installs, raiseCalls, envReads, envSeen >>

\* the thread that ran the closure reaches its counter access
CountStep(t) ==
    /\ proc = "running"
    /\ pc[t] = "count"
    /\ CountAccess(t, op[t])
    /\ UNCHANGED << env, proc, HANDLER_INIT, disposition, ITERATIONS,
                    ncalls, starts, beginRaised, endRaised, installs, raiseCalls, envReads, envSeen >>

\* *ITERATIONS on an uninitialised Lazy: this thread runs the initialiser; a
\* thread that finds it running has no step until the value is stored
LazyBegin(t) ==
    /\ proc = "running"
    /\ pc[t] = "budget"
    /\ ITERATIONS.st = "uninit"
    /\ ITERATIONS' = [ITERATIONS EXCEPT !.st = "running"]
    /\ pc' = [pc EXCEPT ![t] = "lazyInit"]
    /\ last' = NoCall
    /\ UNCHANGED << env, proc, HANDLER_INIT, disposition, ITERATION_COUNT,
                    op, curr, kth, ncalls, starts, fetchLog, beginRaised, endRaised,
                    installs, raiseCalls, envReads, envSeen >>

LazyEndStateRunning == "running"
\* the state of the Lazy when its initialiser has returned
LazyEndState == "init"

\* the initialiser: env::var("ITERATIONS").ok().and_then(parse).unwrap_or(1)
LazyInit(t) ==
    /\ proc = "running"
    /\ pc[t] = "lazyInit"
    /\ ITERATIONS' = [st |-> LazyEndState, val |-> IterationsInit(env)]
    /\ envReads' = envReads + 1
    /\ envSeen' = IF envReads = 0 THEN env ELSE envSeen
    /\ pc' = [pc EXCEPT ![t] = "budget"]
    /\ last' = NoCall
    /\ UNCHANGED << env, proc, HANDLER_INIT, disposition, ITERATION_COUNT,
                    op, curr, kth, ncalls, starts, fetchLog, beginRaised, endRaised,
                    installs, raiseCalls >>

\* the comparison against *ITERATIONS after the Lazy was found uninitialised
Decide(t) ==
    /\ proc = "running"
    /\ pc[t] = "budget"
    /\ ITERATIONS.st = "init"
    /\ IF Go(op[t], curr[t])
       THEN GoOn(t, "raise", op[t], curr[t], kth[t])
       ELSE Finish(t, op[t], curr[t], kth[t], "none", 0)
    /\ UNCHANGED << env, proc, HANDLER_INIT, disposition, ITERATIONS,
                    ITERATION_COUNT, ncalls, starts, fetchLog, beginRaised, endRaised,
                    installs, raiseCalls, envReads, envSeen >>

SignalOf(o) == IF o = "start" THEN "SIGUSR1" ELSE "SIGUSR2"

OnRaiseErrIgnored == "ignore"
\* raise(..).unwrap(): an Err panics
OnRaiseErr == "panic"

\* raise(sig).unwrap(): an error panics, and the panic aborts the process at
\* the extern "C" / extern "system" frame; a delivered signal runs the no-op
\* handle_signal, or terminates the process under the default disposition;
\* start_signal then evaluates to 1
Raise(t) ==
    /\ proc = "running"
    /\ pc[t] = "raise"
    /\ raiseCalls' = raiseCalls + 1
    /\ \E ok \in BOOLEAN :
          IF ok
          THEN /\ beginRaised' = beginRaised + (IF op[t] = "start" THEN 1 ELSE 0)
               /\ endRaised' = endRaised + (IF op[t] = "stop" THEN 1 ELSE 0)
               /\ IF disposition[SignalOf(op[t])] = "handler"
                  THEN /\ Finish(t, op[t], curr[t], kth[t], SignalOf(op[t]), 1)
                       /\ UNCHANGED proc
                  ELSE /\ proc' = "killed"
                       /\ last' = NoCall
                       /\ UNCHANGED << pc, op, curr, kth >>
          ELSE /\ IF OnRaiseErr = "panic"
                  THEN /\ pc' = [pc EXCEPT ![t] = "panic"]
                       /\ proc' = "aborted"
                       /\ last' = NoCall
                       /\ UNCHANGED << op, curr, kth >>
                  ELSE /\ Finish(t, op[t], curr[t], kth[t], "none", 1)
                       /\ UNCHANGED proc
               /\ UNCHANGED << beginRaised, endRaised >>
    /\ UNCHANGED << env, HANDLER_INIT, disposition, ITERATIONS, ITERATION_COUNT,
                    ncalls, starts, fetchLog, installs, envReads, envSeen >>

\* a panic of call_once reaches the extern "C" / extern "system" frame: the
\* process aborts
Abort(t) ==
    /\ proc = "running"
    /\ pc[t] = "panic"
    /\ proc' = "aborted"
    /\ last' = NoCall
    /\ UNCHANGED << env, HANDLER_INIT, disposition, ITERATIONS, ITERATION_COUNT,
                    pc, op, curr, kth, ncalls, starts, fetchLog, beginRaised, endRaised,
                    installs, raiseCalls, envReads, envSeen >>

Step(t, cap) ==
    \/ Call(t, cap)
    \/ OnceBegin(t)
    \/ OnceWake(t)
    \/ OncePoisoned(t)
    \/ SigactionUsr1(t)
    \/ SigactionUsr2(t)
    \/ OnceEnd(t)
    \/ CountStep(t)
    \/ LazyBegin(t)
    \/ LazyInit(t)
    \/ Decide(t)
    \/ Raise(t)
    \/ Abort(t)

\* the steps of thread t inside a call
InCall(t) ==
    \/ OnceBegin(t)
    \/ OnceWake(t)
    \/ OncePoisoned(t)
    \/ SigactionUsr1(t)
    \/ SigactionUsr2(t)
    \/ OnceEnd(t)
    \/ CountStep(t)
    \/ LazyBegin(t)
    \/ LazyInit(t)
    \/ Decide(t)
    \/ Raise(t)
    \/ Abort(t)

Next == SetEnv \/ \E t \in Threads : Step(t, MaxCalls)

Spec == Init /\ [][Next]_vars

NextLong == SetEnv \/ \E t \in Threads : Step(t, LongCalls)

\* runs long enough for the counter to pass usize::MAX
SpecLong == Init /\ [][NextLong]_vars

NextLive == SetEnv \/ \E t \in Threads : Step(t, LiveCalls)

\* every thread inside a call is scheduled again: the steps of a call are
\* straight-line code and system calls that return
Fairness == \A t \in Threads : WF_vars(InCall(t))

\* runs of LiveCalls calls under fair scheduling of the threads
SpecLive == Init /\ [][NextLive]_vars /\ Fairness

\* a caller that pairs its calls: start_signal, then stop_signal, and again
PairedCall(t, cap) ==
    /\ Call(t, cap)
    /\ starts' # starts <=> ncalls[t] % 2 = 0

\* the one thread of a single-threaded host
Main == 1

\* a single-threaded host running MaxIters iterations of start_signal,
\* stop_signal; no Once or Lazy is ever found running or poisoned
NextSeq ==
    \/ SetEnv
    \/ PairedCall(Main, 2 * MaxIters)
    \/ OnceBegin(Main)
    \/ SigactionUsr1(Main)
    \/ SigactionUsr2(Main)
    \/ OnceEnd(Main)
    \/ CountStep(Main)
    \/ LazyBegin(Main)
    \/ LazyInit(Main)
    \/ Decide(Main)
    \/ Raise(Main)
    \/ Abort(Main)

SpecSeq == Init /\ [][NextSeq]_vars

\* thread t enters the next call of its one start_signal, stop_signal pair
OnePair(t) ==
    /\ ncalls[t] < 2
    /\ PairedCall(t, 2 * NumThreads)

\* every thread of the host runs start_signal followed by stop_signal once
NextPaired ==
    \/ SetEnv
    \/ \E t \in Threads : OnePair(t)
    \/ \E t \in Threads : InCall(t)

SpecPaired == Init /\ [][NextPaired]_vars

(* ---- what the claims speak of ---- *)
\* threads inside a start_signal call; those that have not done its fetch_add
InStart == { t \in Threads : op[t] = "start" }
BeforeFetch == { t \in InStart : kth[t] = 0 }
\* number of calls that have returned (a panicked call never does)
Returned == calls - Cardinality({ t \in Threads : pc[t] # "idle" })
\* threads that have called
Callers == { t \in Threads : ncalls[t] > 0 }
Min(a, b) == IF a < b THEN a ELSE b
\* every caller made one call, a start_signal, and it has returned
EachStartedOnce ==
    /\ Callers # {}
    /\ \A t \in Callers : ncalls[t] = 1 /\ pc[t] = "idle"
    /\ starts = Cardinality(Callers)
\* the last returned call decided as the budget n demands
DecidedBy(n) ==
    /\ last.op = "start" => (last.raised = "SIGUSR1" <=> last.curr < n)
    /\ last.op = "stop" => (last.raised = "SIGUSR2" <=> (0 < last.curr /\ last.curr <= n))
\* ITERATIONS unset, or set to what does not parse as an unsigned integer
Unparsable(e) == ~e.set \/ ParseUsize(e.val) = None

\* C1: in the order of their fetches, the k-th start_signal call returns 1 if
\* k <= N and 0 otherwise, and the counter equals the number of start_signal
\* calls made: all m of them once they have returned, and meanwhile those past
\* their fetch
C1_KthStartResult ==
    /\ last.op = "start" =>
          /\ ITERATIONS.st = "init"
          /\ last.k >= 1
          /\ last.ret = (IF last.k <= Budget THEN 1 ELSE 0)
    /\ ITERATION_COUNT = starts - Cardinality(BeforeFetch)
    /\ (InStart = {} => ITERATION_COUNT = starts)

\* the third call under budget 2 has returned 0, with the counter at 3
C1_Witness ==
    /\ last.op = "start" /\ last.k = 3 /\ last.ret = 0
    /\ ITERATIONS.st = "init" /\ Budget = 2
    /\ ITERATION_COUNT = 3 /\ starts = 3 /\ InStart = {}

\* C2: when T threads have each called start_signal once and nothing else was
\* called, min(T, N) begin signals were raised, the counter is T and the
\* pre-increment values obtained are pairwise different
C2_ThreadsOnce ==
    EachStartedOnce =>
       /\ beginRaised = Min(Cardinality(Callers), Budget)
       /\ endRaised = 0
       /\ ITERATION_COUNT = Cardinality(Callers)
       /\ \A i, j \in 1..Len(fetchLog) : i # j => fetchLog[i] # fetchLog[j]

\* all threads have called start_signal once, more threads than the budget
C2_Witness ==
    /\ EachStartedOnce
    /\ Callers = Threads
    /\ ITERATIONS.st = "init" /\ Budget = 1
    /\ beginRaised = 1

\* C3: a start_signal call that returns, returns 0 or 1: 1 exactly when it
\* raised SIGUSR1 and 0 exactly when it raised nothing; the caller of either
\* entry point receives the core's value
C3_ReturnValues ==
    last.op = "start" =>
       /\ last.ret \in {0, 1}
       /\ last.raised \in {"SIGUSR1", "none"}
       /\ (last.ret = 1 <=> last.raised = "SIGUSR1")
       /\ (last.ret = 0 <=> last.raised = "none")
       /\ last.ret = last.core

\* a start_signal called through the JNI entry point raised SIGUSR1 and returned 1
C3_Witness ==
    last.op = "start" /\ last.entry = "jni" /\ last.raised = "SIGUSR1" /\ last.ret = 1

\* C4: a stop_signal call raises SIGUSR2 if and only if the counter value it
\* read satisfies 0 < curr <= N
C4_StopRaises ==
    last.op = "stop" =>
       /\ last.raised \in {"SIGUSR2", "none"}
       /\ (last.curr > 0 => ITERATIONS.st = "init")
       /\ (last.raised = "SIGUSR2" <=>
              (0 < last.curr /\ ITERATIONS.st = "init" /\ last.curr <= Budget))

\* a stop_signal that read a counter equal to the budget, 2 or more, raised SIGUSR2
C4_Witness ==
    /\ last.op = "stop" /\ last.raised = "SIGUSR2"
    /\ ITERATIONS.st = "init" /\ Budget >= 2 /\ last.curr = Budget

\* C5: the closure that installs the two dispositions runs at most once
C5_InstallAtMostOnce == installs <= 1

\* every thread has called, three calls or more were made, one installation ran
C5_Witness ==
    /\ installs = 1 /\ HANDLER_INIT = "COMPLETE"
    /\ Callers = Threads /\ calls >= 3

\* C6: whenever a begin or an end signal has been raised, the handler is
\* installed for SIGUSR1 and for SIGUSR2
C6_InstalledBeforeRaise ==
    (beginRaised > 0 \/ endRaised > 0) =>
        \A s \in Signals : disposition[s] = "handler"

\* a thread raised SIGUSR1 while the thread that ran the installation is still
\* before its own counter access
C6_Witness ==
    \E a, b \in Threads :
       /\ a # b
       /\ pc[a] = "count"
       /\ last.t = b /\ last.raised = "SIGUSR1"
       /\ beginRaised = 1

\* C7: no step leaves the iteration counter smaller than it was, whatever
\* value the counter holds
C7_CounterNonDecreasing == [][ITERATION_COUNT' >= ITERATION_COUNT]_vars

\* C8: once ITERATIONS has been read the budget is the value that read
\* produced, and every call decides as that value demands, whatever the
\* environment holds by then
C8_BudgetFixed ==
    ITERATIONS.st = "init" =>
       /\ envReads = 1
       /\ Budget = IterationsInit(envSeen)
       /\ DecidedBy(IterationsInit(envSeen))

\* a start_signal call has returned whose decision the value now in the
\* environment would have turned
C8_Witness ==
    /\ ITERATIONS.st = "init"
    /\ env # envSeen
    /\ last.op = "start"
    /\ (last.curr < IterationsInit(env)) # (last.curr < IterationsInit(envSeen))

\* C9 as stated: ITERATIONS has been read, once, by the time the first
\* start_signal or stop_signal call of the process has returned
C9_ReadInFirstCall == Returned > 0 => envReads = 1

\* C9 as amended: ITERATIONS is read at most once, not before the first
\* fetch_add of a start_signal, and has been read when a start_signal, or a
\* stop_signal that read a counter above 0, returns; a stop_signal that read 0
\* returns without a read; calls decide as the value read demands
C9_ReadAtFirstUse ==
    /\ envReads <= 1
    /\ (envReads = 1 <=> ITERATIONS.st = "init")
    /\ (fetchLog = <<>> => envReads = 0)
    /\ ((last.op = "start" \/ (last.op = "stop" /\ last.curr > 0)) => envReads = 1)
    /\ (envReads = 1 => DecidedBy(IterationsInit(envSeen)))

\* a stop_signal, the first call of the process, has returned and ITERATIONS
\* is still unread
C9_Witness ==
    /\ last.op = "stop" /\ last.curr = 0 /\ last.raised = "none"
    /\ Returned = 1 /\ calls = 1
    /\ envReads = 0 /\ ITERATIONS.st = "uninit"

\* C10: with ITERATIONS unset or unparsable at the read, the read yields the
\* budget 1 and no error: the first start_signal returns 1 and raises SIGUSR1,
\* every later one returns 0, a stop_signal that reads counter 1 raises SIGUSR2
\* and one that reads 2 or more raises nothing
C10_DefaultBudget ==
    (envReads = 1 /\ Unparsable(envSeen)) =>
       /\ ITERATIONS.st = "init"
       /\ Budget = 1
       /\ (last.op = "start" /\ last.k = 1 =>
              last.ret = 1 /\ last.raised = "SIGUSR1")
       /\ (last.op = "start" /\ last.k > 1 =>
              last.ret = 0 /\ last.raised = "none")
       /\ (last.op = "stop" /\ last.curr = 1 => last.raised = "SIGUSR2")
       /\ (last.op = "stop" /\ last.curr >= 2 => last.raised = "none")

\* under a set but unparsable ITERATIONS the first start_signal raised SIGUSR1,
\* a stop_signal raised SIGUSR2 and the second start_signal has returned 0
C10_Witness ==
    /\ envReads = 1 /\ envSeen.set /\ Unparsable(envSeen)
    /\ last.op = "start" /\ last.k = 2 /\ last.ret = 0
    /\ endRaised = 1 /\ beginRaised = 1

\* C11: with the budget read as 0 no signal is raised: every start_signal
\* returns 0 having raised nothing, every stop_signal raises nothing, and no
\* call is on its way to raise
C11_ZeroBudget ==
    (ITERATIONS.st = "init" /\ Budget = 0) =>
       /\ beginRaised = 0 /\ endRaised = 0 /\ raiseCalls = 0
       /\ \A t \in Threads : pc[t] # "raise"
       /\ (last.op = "start" => last.ret = 0 /\ last.raised = "none")
       /\ (last.op = "stop" => last.raised = "none")

\* under budget 0 two start_signal calls have returned 0 and a stop_signal
\* that read counter 2 has returned without a signal
C11_Witness ==
    /\ ITERATIONS.st = "init" /\ Budget = 0
    /\ starts = 2 /\ InStart = {}
    /\ last.op = "stop" /\ last.curr = 2 /\ last.raised = "none"

\* C12: once a sigaction of the installation has failed, the failing call
\* stays in its panic and no call of the process has raised a signal, returned
\* or got past init_signal_handler
C12_InstallFailureFatal ==
    HANDLER_INIT = "POISONED" =>
       /\ \E t \in Threads : pc[t] = "panic"
       /\ \A t \in Threads : pc[t] \in {"idle", "once", "panic"}
       /\ Returned = 0 /\ last = NoCall
       /\ beginRaised = 0 /\ endRaised = 0 /\ raiseCalls = 0
       /\ fetchLog = <<>> /\ ITERATION_COUNT = 0

\* the second sigaction failed, a concurrent call found the Once poisoned and
\* the process has aborted
C12_Witness ==
    /\ HANDLER_INIT = "POISONED" /\ proc = "aborted"
    /\ disposition["SIGUSR1"] = "handler" /\ disposition["SIGUSR2"] = "default"
    /\ Callers = Threads
    /\ \A t \in Threads : pc[t] = "panic"

\* threads whose raise(..) failed
RaiseFailed == { t \in Threads : pc[t] = "panic" /\ HANDLER_INIT = "COMPLETE" }

\* C13: a failed raise ends the process in the call that made it, in
\* start_signal and in stop_signal: that call does not return, and raise was
\* called once per signal raised plus once for the failure
C13_RaiseFailureFatal ==
    /\ raiseCalls = beginRaised + endRaised + Cardinality(RaiseFailed)
    /\ Cardinality(RaiseFailed) <= 1
    /\ (RaiseFailed # {} => proc = "aborted" /\ last = NoCall)
    /\ (proc = "aborted" => \E t \in Threads : pc[t] = "panic")

\* the raise of a stop_signal failed after a begin signal had been raised
C13_Witness ==
    \E t \in RaiseFailed :
       /\ op[t] = "stop" /\ curr[t] = 1
       /\ beginRaised = 1 /\ endRaised = 0 /\ raiseCalls = 2
       /\ proc = "aborted"

\* a step of a stop_signal call of thread t, its entry included
StopStep(t) ==
    \/ op[t] = "stop" /\ pc'[t] # pc[t]
    \/ ncalls'[t] # ncalls[t] /\ starts' = starts

\* a step of a start_signal call of thread t, its entry included
StartStep(t) ==
    \/ op[t] = "start" /\ pc'[t] # pc[t]
    \/ ncalls'[t] # ncalls[t] /\ starts' # starts

\* no step of a stop_signal call changes the counter, and a step
\* that changes it belongs to a start_signal call and adds exactly one
CounterSteps ==
    /\ \A t \in Threads : StopStep(t) => ITERATION_COUNT' = ITERATION_COUNT
    /\ ITERATION_COUNT' # ITERATION_COUNT =>
          /\ ITERATION_COUNT' = ITERATION_COUNT + 1
          /\ \E t \in Threads : StartStep(t)

\* C14: stop_signal never modifies the counter; only start_signal changes it,
\* by exactly one per call whether or not it raised the begin signal, so the
\* counter is the number of start_signal calls that have done their fetch
C14_OnlyStartCounts ==
    /\ [](ITERATION_COUNT = starts - Cardinality(BeforeFetch))
    /\ [][CounterSteps]_vars

\* a start_signal that returned 0 has still added one, after a stop_signal
\* raised the end signal and after one that raised nothing
C14_Witness ==
    /\ last.op = "start" /\ last.ret = 0 /\ last.curr = 1
    /\ ITERATION_COUNT = 2 /\ starts = 2 /\ calls = 4
    /\ endRaised = 1 /\ beginRaised = 1
    /\ InStart = {}

\* thread t is inside a call of the running process
Pending(t) == proc = "running" /\ pc[t] # "idle"

\* thread t waits in call_once for thread u, which runs the closure
WaitsOnce(t, u) ==
    /\ pc[t] = "once" /\ HANDLER_INIT = "RUNNING"
    /\ u # t /\ pc[u] \in {"sa1", "sa2", "onceEnd"}

\* thread t waits in *ITERATIONS for thread u, which runs the initialiser
WaitsLazy(t, u) ==
    /\ pc[t] = "budget" /\ ITERATIONS.st = "running"
    /\ u # t /\ pc[u] = "lazyInit"

\* C15 (as stated): a thread inside a call can always take its next step,
\* whatever the other threads do
C15_NonBlocking ==
    \A t \in Threads : Pending(t) => ENABLED InCall(t)

\* C15 (amended): a thread inside a call that cannot take its next step waits
\* for the thread running the one-time installation or the one-time budget
\* initialisation, and that thread can take its step; with both done every
\* thread inside a call can step
C15_BlocksOnlyOnInit ==
    \A t \in Threads :
       (Pending(t) /\ ~ENABLED InCall(t)) =>
          /\ \E u \in Threads :
                (WaitsOnce(t, u) \/ WaitsLazy(t, u)) /\ ENABLED InCall(u)
          /\ ~(HANDLER_INIT = "COMPLETE" /\ ITERATIONS.st = "init")

\* a thread has entered a call while another runs the installation (one
\* handler installed, the other not yet) and has no step of its own
C15_Witness ==
    \E t, u \in Threads :
       /\ Pending(t) /\ WaitsOnce(t, u) /\ pc[u] = "sa2"
       /\ ~ENABLED InCall(t)

\* C16: under fair scheduling every call finishes: a thread inside a call
\* returns from it or the process ends in the fatal failure
C16_CallsFinish ==
    \A t \in Threads : Pending(t) ~> ~Pending(t)

\* a call that had to wait for another thread's installation and budget read
\* has returned after raising its signal
C16_Witness ==
    /\ last.op = "start" /\ last.raised = "SIGUSR1"
    /\ installs = 1 /\ envReads = 1
    /\ \E u \in Threads : u # last.t /\ pc[u] = "raise"
    /\ proc = "running"

\* iterations (start_signal then stop_signal, both returned) the thread has run
ItersDone(t) == IF pc[t] = "idle" /\ ncalls[t] % 2 = 0 THEN ncalls[t] \div 2 ELSE None

\* C17: in a single-threaded run of paired calls the signals alternate begin,
\* end, begin, end: a begin is raised only with as many ends as begins before
\* it and an end only after one more begin; a start_signal that returned r
\* leaves r begins unanswered and its stop_signal answers them, so the stop
\* raises iff its start returned 1, that is iff the value its start fetched
\* is below N; with N or more iterations run there were exactly N begin and N
\* end signals
C17_PairedRun ==
    /\ endRaised <= beginRaised /\ beginRaised <= endRaised + 1
    /\ (pc[Main] = "raise" /\ op[Main] = "start" => beginRaised = endRaised)
    /\ (pc[Main] = "raise" /\ op[Main] = "stop" => beginRaised = endRaised + 1)
    /\ (last.op = "start" => beginRaised = endRaised + last.ret)
    /\ (last.op = "stop" =>
          /\ beginRaised = endRaised
          /\ last.raised = "SIGUSR2" <=> fetchLog[Len(fetchLog)] < Budget)
    /\ (ITERATIONS.st = "init" /\ ItersDone(Main) # None /\ ItersDone(Main) >= Budget =>
          beginRaised = Budget /\ endRaised = Budget)

\* with budget 2 the third iteration has run: its stop_signal raised nothing
\* and two begin and two end signals were raised
C17_Witness ==
    /\ ITERATIONS.st = "init" /\ Budget = 2
    /\ ItersDone(Main) = 3
    /\ last.op = "stop" /\ last.raised = "none" /\ last.curr = 3
    /\ beginRaised = 2 /\ endRaised = 2

\* C18: no end signal is raised before a begin signal: whenever an end signal
\* has been raised, a begin signal has been raised already
C18_EndAfterBegin ==
    endRaised > 0 => beginRaised > 0

\* C19: when every thread runs start_signal followed by stop_signal, the end
\* signals never exceed N and, with every thread through its pair, there are
\* as many end signals as begin signals
C19_PairedThreads ==
    /\ (ITERATIONS.st = "init" => endRaised <= Budget)
    /\ ((proc = "running" /\ \A t \in Threads : ItersDone(t) = 1) =>
           endRaised = beginRaised)

====
